---- MODULE Spec2Model ----
(***************************************************************************)
(* Model of sw/helloworld.c: the bit-reversal accelerator self-test        *)
(* (bitrev_selftest), its software reference model (reverse_bits_k) and    *)
(* the part of main that calls it.                                         *)
(*                                                                         *)
(* A uint32_t is a function from bit positions 0..31 to {0,1}, so that the *)
(* masks, shifts and merges of reverse_bits_k are computed bit for bit and *)
(* no value exceeds the integers of the model checker.                     *)
(***************************************************************************)
EXTENDS Integers, Sequences, FiniteSets, TLC

\* ------------------------------------------------------------------------
\* Program constants
\* ------------------------------------------------------------------------
\* #define K 10u
K == 10

\* #define N (1u << K)
N == 2 ^ K

\* ------------------------------------------------------------------------
\* Bounds of the model
\* ------------------------------------------------------------------------
\* Arguments of the reference-model harness: for every k, all words whose
\* set bits lie in the XBits lowest or the XBits highest of the k low bits.
XBits == 3

\* The harness sweeps the whole domain [0, 2^k) for every k up to SweepK.
SweepK == 10

\* The number of indices at which the accelerator model may answer wrongly.
NumSites == 3

\* How far the width of the accelerator may be from K, either way.
MaxSkew == 1

\* The isqrt harness tries the arguments h * 2^16 + l for h and l in
\* 0 .. IsqrtSpan and near the ends of their range.
IsqrtSpan == 8

\* ------------------------------------------------------------------------
\* uint32_t arithmetic, bit by bit
\* ------------------------------------------------------------------------
BitPos == 0 .. 31

\* The word made of two 16-bit halves (0xHHHHLLLL).
Word(hi, lo) ==
    [j \in BitPos |-> IF j < 16 THEN (lo \div (2 ^ j)) % 2
                                ELSE (hi \div (2 ^ (j - 16))) % 2]

\* The word of a natural number below 2^31.
ToU32(n) == [j \in BitPos |-> IF j > 30 THEN 0 ELSE (n \div (2 ^ j)) % 2]

\* The natural number of a word below 2^31.
RECURSIVE NatFrom(_, _)
NatFrom(w, j) == IF j > 30 THEN 0 ELSE w[j] + 2 * NatFrom(w, j + 1)

ToNat(w) == NatFrom(w, 0)

Zero32 == [j \in BitPos |-> 0]

Ones32 == [j \in BitPos |-> 1]

\* x & m
And32(x, m) == [j \in BitPos |-> x[j] * m[j]]

\* x | y
Or32(x, y) == [j \in BitPos |-> IF x[j] + y[j] > 0 THEN 1 ELSE 0]

\* x << n for 0 <= n < 32: the bits shifted past bit 31 are lost.
Shl32(x, n) == [j \in BitPos |-> IF j >= n THEN x[j - n] ELSE 0]

\* A mutation of Shr32: an arithmetic shift, filled with bit 31.
Shr32_arith(x, n) == [j \in BitPos |-> IF j + n <= 31 THEN x[j + n] ELSE x[31]]

\* x >> n for 0 <= n < 32: logical, zero filled.
Shr32(x, n) == [j \in BitPos |-> IF j + n <= 31 THEN x[j + n] ELSE 0]

\* The results a build can give x >> n on a uint32_t.  For n < 32 the C
\* standard defines the logical shift.  For n >= 32 the behaviour is
\* undefined (C11 6.5.7p3): a register shift on RV32 uses n mod 32, a
\* constant folder that shifts every bit out gives 0, and a compiler that
\* treats the expression as having no defined value may leave any word.
ShrOutcomes(x, n) ==
    IF n < 32 THEN {Shr32(x, n)}
              ELSE {Shr32(x, n % 32), Zero32, Ones32}

\* ------------------------------------------------------------------------
\* reverse_bits_k
\* ------------------------------------------------------------------------
\* A mutation of SwapPass: the right-moving half keeps its place.
SwapPass_noshift(x, lowmask, highmask, s) ==
    Or32(Shl32(And32(x, lowmask), s), And32(x, highmask))

\* One pass x = ((x & lowmask) << s) | ((x & highmask) >> s).
SwapPass(x, lowmask, highmask, s) ==
    Or32(Shl32(And32(x, lowmask), s), Shr32(And32(x, highmask), s))

\* x = ((x & 0x55555555u) << 1) | ((x & 0xAAAAAAAAu) >> 1);
Pass1(x) == SwapPass(x, Word(21845, 21845), Word(43690, 43690), 1)

\* x = ((x & 0x33333333u) << 2) | ((x & 0xCCCCCCCCu) >> 2);
Pass2(x) == SwapPass(x, Word(13107, 13107), Word(52428, 52428), 2)

\* x = ((x & 0x0F0F0F0Fu) << 4) | ((x & 0xF0F0F0F0u) >> 4);
Pass3(x) == SwapPass(x, Word(3855, 3855), Word(61680, 61680), 4)

\* A mutation of Pass4: the bytes are moved by 4 instead of 8.
Pass4_by4(x) == SwapPass(x, Word(255, 255), Word(65280, 65280), 4)

\* x = ((x & 0x00FF00FFu) << 8) | ((x & 0xFF00FF00u) >> 8);
Pass4(x) == SwapPass(x, Word(255, 255), Word(65280, 65280), 8)

\* A mutation of Pass5: the half-word swap is left out.
Pass5_skipped(x) == x

\* x = (x << 16) | (x >> 16);
Pass5(x) == Or32(Shl32(x, 16), Shr32(x, 16))

\* The five passes: the full 32-bit reversal of x.
Reverse32(x) == Pass5(Pass4(Pass3(Pass2(Pass1(x)))))

\* reverse_bits_k(x) in a build whose K is k: the set of values the call can
\* return (one value when 1 <= k <= 32; the shift count 32u - K is 32 when
\* k = 0).
reverse_bits_k(x, k) == ShrOutcomes(Reverse32(x), 32 - k)

\* ------------------------------------------------------------------------
\* isqrt
\* ------------------------------------------------------------------------
\* The uint32_t values of isqrt are pairs <<h, l>> of 16-bit halves, of
\* value h * 2^16 + l: they are added, subtracted and compared as numbers.
Half == 2 ^ 16

\* a < b
Lt32(a, b) == a[1] < b[1] \/ (a[1] = b[1] /\ a[2] < b[2])

\* a + b as a number: the high half of the sum may exceed 16 bits.
SumWide(a, b) ==
    <<a[1] + b[1] + ((a[2] + b[2]) \div Half), (a[2] + b[2]) % Half>>

\* The sum fits a uint32_t.
Fits32(w) == w[1] < Half

\* a + b as the uint32_t addition gives it: modulo 2^32.
Add32(a, b) == <<SumWide(a, b)[1] % Half, SumWide(a, b)[2]>>

\* a - b, modulo 2^32.
Sub32(a, b) ==
    LET borrow == IF a[2] < b[2] THEN 1 ELSE 0
    IN  <<(a[1] - b[1] - borrow + Half) % Half, (a[2] - b[2] + Half) % Half>>

\* a >> n for n in 1 .. 15.
ShrHalves(a, n) ==
    <<a[1] \div (2 ^ n), (a[2] \div (2 ^ n)) + (a[1] % (2 ^ n)) * (2 ^ (16 - n))>>

\* uint32_t res = 0, bit = 1u << 30;
IsqrtEntryState(n) ==
    [n |-> n, res |-> <<0, 0>>, bit |-> <<2 ^ 14, 0>>, ovf |-> FALSE]

\* A mutation of IsqrtBody: the comparison is n > res + bit.
IsqrtBody_strict(st) ==
    LET sum == Add32(st.res, st.bit)
        half == ShrHalves(st.res, 1)
    IN  IF Lt32(sum, st.n)
        THEN [n |-> Sub32(st.n, sum),
              res |-> Add32(half, st.bit),
              bit |-> ShrHalves(st.bit, 2),
              ovf |-> st.ovf \/ ~Fits32(SumWide(st.res, st.bit))
                             \/ ~Fits32(SumWide(half, st.bit))]
        ELSE [n |-> st.n,
              res |-> half,
              bit |-> ShrHalves(st.bit, 2),
              ovf |-> st.ovf \/ ~Fits32(SumWide(st.res, st.bit))]

\* One iteration of while (bit) { if (n >= res + bit) { n -= res + bit;
\* res = (res >> 1) + bit; } else { res >>= 1; } bit >>= 2; }
IsqrtBody(st) ==
    LET sum == Add32(st.res, st.bit)
        half == ShrHalves(st.res, 1)
    IN  IF ~Lt32(st.n, sum)
        THEN [n |-> Sub32(st.n, sum),
              res |-> Add32(half, st.bit),
              bit |-> ShrHalves(st.bit, 2),
              ovf |-> st.ovf \/ ~Fits32(SumWide(st.res, st.bit))
                             \/ ~Fits32(SumWide(half, st.bit))]
        ELSE [n |-> st.n,
              res |-> half,
              bit |-> ShrHalves(st.bit, 2),
              ovf |-> st.ovf \/ ~Fits32(SumWide(st.res, st.bit))]

\* while (bit > n) bit >>= 2;
RECURSIVE IsqrtShrink(_)
IsqrtShrink(st) ==
    IF Lt32(st.n, st.bit)
    THEN IsqrtShrink([st EXCEPT !.bit = ShrHalves(st.bit, 2)])
    ELSE st

\* while (bit) { ... } return res;
RECURSIVE IsqrtLoop(_)
IsqrtLoop(st) == IF st.bit # <<0, 0>> THEN IsqrtLoop(IsqrtBody(st)) ELSE st.res

\* isqrt(n)
isqrt(n) == IsqrtLoop(IsqrtShrink(IsqrtEntryState(n)))

\* uint32_t r = isqrt(1234567890UL); in main: 1234567890 = 18838 * 2^16 + 722.
MainIsqrt == isqrt(<<18838, 722>>)

\* ------------------------------------------------------------------------
\* State
\* ------------------------------------------------------------------------
VARIABLES
    pc,       \* position of the program: main, then bitrev_selftest, then main
    i,        \* the loop index of the running for loop
    errors,   \* uint32_t errors
    con,      \* the messages printed so far, oldest first
    flushed,  \* how many messages of con uart_write_flush has pushed out
    ret,      \* main's return value, -1 while main has not returned
    fifo,     \* accelerator: the words written to IN and not yet popped
    nIn,      \* number of writes to BITREV_IN
    nOut,     \* number of reads of BITREV_OUT
    bus,      \* the latest access to a BITREV register: <<register, value>>
    hwFault,  \* accelerator: what it returns wrongly, per fault site
    hwK,      \* accelerator: the width it was built with (RTL BITREV_K)
    first,    \* two-run harness: <<errors, output>> of the first run
    spc,      \* isqrt harness: position
    sn,       \* isqrt harness: the argument
    srem,     \* isqrt: n
    sres,     \* isqrt: res
    sbit,     \* isqrt: bit
    sovf,     \* isqrt harness: some res + bit did not fit 32 bits
    rpc,      \* reference-model harness: position
    rk,       \* reference-model harness: the K of the build
    rx,       \* reference-model harness: the argument
    ry,       \* reference-model harness: reverse_bits_k(rx)
    rz,       \* reference-model harness: reverse_bits_k(ry)
    img       \* reference-model harness: the results of a sweep of [0, 2^rk)

vars == <<pc, i, errors, con, flushed, ret, fifo, nIn, nOut, bus, hwFault,
          hwK, first, spc, sn, srem, sres, sbit, sovf, rpc, rk, rx, ry, rz, img>>

driverVars ==
    <<pc, i, errors, con, flushed, ret, fifo, nIn, nOut, bus, hwFault, hwK>>

revVars == <<rpc, rk, rx, ry, rz, img>>

isqrtVars == <<spc, sn, srem, sres, sbit, sovf>>

\* What main and bitrev_selftest leave alone.
harnessVars == <<revVars, isqrtVars, first>>

\* ------------------------------------------------------------------------
\* Reference-model harness: reverse_bits_k applied to bounded arguments
\* ------------------------------------------------------------------------
\* The widths K can be built with.
Widths == 0 .. 32

\* The arguments tried for width k, all below 2^k.
Inputs(k) ==
    LET m == IF k < XBits THEN k ELSE XBits
    IN  {ToU32(v) : v \in 0 .. (2 ^ m) - 1}
        \cup {Shl32(ToU32(v), k - m) : v \in 0 .. (2 ^ m) - 1}

\* Neither main nor the self-test runs in the harness.
DriverIdle ==
    /\ pc = "idle"
    /\ i = 0
    /\ errors = 0
    /\ con = <<>>
    /\ flushed = 0
    /\ ret = -1
    /\ fifo = <<>>
    /\ nIn = 0
    /\ nOut = 0
    /\ bus = <<"none", 0>>
    /\ hwFault = <<>>
    /\ hwK = K
    /\ first = <<>>

\* reverse_bits_k is not under test.
RevIdle ==
    /\ rpc = "off"
    /\ rk = K
    /\ rx = Zero32
    /\ ry = Zero32
    /\ rz = Zero32
    /\ img = <<>>

\* isqrt is not running.
IsqrtIdle ==
    /\ spc = "off"
    /\ sn = <<0, 0>>
    /\ srem = <<0, 0>>
    /\ sres = <<0, 0>>
    /\ sbit = <<0, 0>>
    /\ sovf = FALSE

InitRev ==
    /\ DriverIdle
    /\ IsqrtIdle
    /\ rpc = "arg"
    /\ rk \in Widths
    /\ rx \in Inputs(rk)
    /\ ry = Zero32
    /\ rz = Zero32
    /\ img = <<>>

\* y = reverse_bits_k(x)
Apply ==
    /\ rpc = "arg"
    /\ \E y \in reverse_bits_k(rx, rk) : ry' = y
    /\ rpc' = "once"
    /\ UNCHANGED <<rk, rx, rz, img>>
    /\ UNCHANGED <<driverVars, isqrtVars, first>>

\* z = reverse_bits_k(y)
ApplyAgain ==
    /\ rpc = "once"
    /\ \E z \in reverse_bits_k(ry, rk) : rz' = z
    /\ rpc' = "twice"
    /\ UNCHANGED <<rk, rx, ry, img>>
    /\ UNCHANGED <<driverVars, isqrtVars, first>>

\* for (x = 0; x < 2^k; ++x) img[x] = reverse_bits_k(x), for small k.
SweepStep ==
    /\ rpc \in {"arg", "sweep"}
    /\ rk <= SweepK
    /\ ToNat(rx) = Len(img)
    /\ Len(img) < 2 ^ rk
    /\ \E y \in reverse_bits_k(rx, rk) : img' = Append(img, y)
    /\ rx' = ToU32(Len(img) + 1)
    /\ rpc' = IF Len(img) + 1 < 2 ^ rk THEN "sweep" ELSE "swept"
    /\ UNCHANGED <<rk, ry, rz>>
    /\ UNCHANGED <<driverVars, isqrtVars, first>>

NextRev == Apply \/ ApplyAgain \/ SweepStep

SpecRev == InitRev /\ [][NextRev]_vars

\* x mod 2^k: the k low bits of x.
LowBits(x, k) == [j \in BitPos |-> IF j < k THEN x[j] ELSE 0]

\* Arguments for width k with bits set above the k low ones as well.
WideInputs(k) ==
    {Or32(lo, Shl32(hi, k)) :
        lo \in Inputs(k),
        hi \in {ToU32(v) : v \in 1 .. (2 ^ XBits) - 1} \cup {Ones32}}

InitWide ==
    /\ DriverIdle
    /\ IsqrtIdle
    /\ rpc = "arg"
    /\ rk \in Widths \ {0}
    /\ rx \in WideInputs(rk)
    /\ ry = Zero32
    /\ rz = Zero32
    /\ img = <<>>

\* z = reverse_bits_k(x mod 2^K)
ApplyMasked ==
    /\ rpc = "once"
    /\ \E z \in reverse_bits_k(LowBits(rx, rk), rk) : rz' = z
    /\ rpc' = "masked"
    /\ UNCHANGED <<rk, rx, ry, img>>
    /\ UNCHANGED <<driverVars, isqrtVars, first>>

NextWide == Apply \/ ApplyMasked

SpecWide == InitWide /\ [][NextWide]_vars

\* ------------------------------------------------------------------------
\* The accelerator behind BITREV_IN, BITREV_OUT and BITREV_STAT
\* ------------------------------------------------------------------------
\* The k-bit reversal of x, by definition: bit j of the result is bit
\* k-1-j of x.
RECURSIVE BitReversal(_, _)
BitReversal(x, k) ==
    IF k = 0 THEN 0
             ELSE (x % 2) * (2 ^ (k - 1)) + BitReversal(x \div 2, k - 1)

\* The indices at which the accelerator may answer wrongly: 5, 0, N-1, ...
FaultSites ==
    {IF s = 0 THEN 5 ELSE IF s = 1 THEN 0 ELSE N + 1 - s : s \in 0 .. NumSites - 1}

\* What the accelerator does at a fault site: the right word, the word 0,
\* or a word wider than K bits.
FaultKinds == {"none", "zero", "wide"}

\* The word the accelerator returns for the pushed index j.
HwWord(j) ==
    IF j \in DOMAIN hwFault /\ hwFault[j] = "zero" THEN 0
    ELSE IF j \in DOMAIN hwFault /\ hwFault[j] = "wide" THEN N + j
    ELSE BitReversal(j % (2 ^ hwK), hwK)

\* The accelerator never signals the word at the head of its queue.
HwHolds ==
    /\ fifo # <<>>
    /\ Head(fifo) \in DOMAIN hwFault
    /\ hwFault[Head(fifo)] = "stuck"

\* The values a read of STAT can return: bit 0 only while a word is ready,
\* and not at once; bit 1 is reserved and arbitrary.
HwStat == IF fifo # <<>> /\ ~HwHolds THEN {0, 1, 2, 3} ELSE {0, 2}

\* ------------------------------------------------------------------------
\* Console
\* ------------------------------------------------------------------------
\* printf: one more message on the console, not yet flushed.
Printf(msg) == con' = Append(con, msg)

\* uart_write_flush: everything printed so far is pushed out.
UartWriteFlush(printed) == flushed' = Len(printed)

\* ------------------------------------------------------------------------
\* main and bitrev_selftest
\* ------------------------------------------------------------------------
\* The program at the entry of main, before any register access.
Boot ==
    /\ pc = "main"
    /\ i = 0
    /\ errors = 0
    /\ con = <<>>
    /\ flushed = 0
    /\ ret = -1
    /\ fifo = <<>>
    /\ nIn = 0
    /\ nOut = 0
    /\ bus = <<"none", 0>>
    /\ first = <<>>
    /\ IsqrtIdle
    /\ RevIdle

Init ==
    /\ Boot
    /\ hwFault \in [FaultSites -> FaultKinds]
    /\ hwK = K

\* main up to the call of bitrev_selftest: the peripheral demos, with
\* isqrt(1234567890UL), 1234567890 being 18838 * 2^16 + 722.  The values read
\* from GPIO, the cycle counter and the ROM are not part of the model.
MainDemos ==
    /\ pc = "main"
    /\ con' = con \o << <<"hello", 0, 0, 0>>, <<"gpio", 0, 0, 0>>,
                        <<"gpio", 0, 0, 0>>,
                        <<"isqrt", MainIsqrt[2], 0, 0>>,
                        <<"tick", 0, 0, 0>>, <<"tock", 0, 0, 0>>,
                        <<"name", 0, 0, 0>> >>
    /\ UartWriteFlush(con')
    /\ pc' = "banner"
    /\ UNCHANGED <<i, errors, ret, fifo, nIn, nOut, bus, hwFault, hwK>>
    /\ UNCHANGED harnessVars

\* printf("Bit-reversal self-test...\n"); and the first loop's i = 0.
Banner ==
    /\ pc = "banner"
    /\ Printf(<<"start", 0, 0, 0>>)
    /\ i' = 0
    /\ pc' = "push"
    /\ UNCHANGED <<errors, flushed, ret, fifo, nIn, nOut, bus, hwFault, hwK>>
    /\ UNCHANGED harnessVars

\* A mutation of PushWord: the loop writes i + 1.
PushWord_offbyone ==
    /\ pc = "push"
    /\ i < N
    /\ fifo' = Append(fifo, i + 1)
    /\ nIn' = nIn + 1
    /\ bus' = <<"IN", i + 1>>
    /\ i' = i + 1
    /\ UNCHANGED <<pc, errors, con, flushed, ret, nOut, hwFault, hwK>>
    /\ UNCHANGED harnessVars

\* for (i = 0; i < N; ++i) BITREV_IN = i;  -- one iteration.
PushWord ==
    /\ pc = "push"
    /\ i < N
    /\ fifo' = Append(fifo, i)
    /\ nIn' = nIn + 1
    /\ bus' = <<"IN", i>>
    /\ i' = i + 1
    /\ UNCHANGED <<pc, errors, con, flushed, ret, nOut, hwFault, hwK>>
    /\ UNCHANGED harnessVars

\* A mutation of PushDone: the pull phase starts after half the frame.
PushDone_early ==
    /\ pc = "push"
    /\ i >= N \div 2
    /\ errors' = 0
    /\ i' = 0
    /\ pc' = "poll"
    /\ UNCHANGED <<con, flushed, ret, fifo, nIn, nOut, bus, hwFault, hwK>>
    /\ UNCHANGED harnessVars

\* A mutation of PushDone: errors keeps its value from the run before.
PushDone_keep ==
    /\ pc = "push"
    /\ i >= N
    /\ errors' = errors
    /\ i' = 0
    /\ pc' = "poll"
    /\ UNCHANGED <<con, flushed, ret, fifo, nIn, nOut, bus, hwFault, hwK>>
    /\ UNCHANGED harnessVars

\* The push loop ends; uint32_t errors = 0; and the second loop's i = 0.
PushDone ==
    /\ pc = "push"
    /\ i >= N
    /\ errors' = 0
    /\ i' = 0
    /\ pc' = "poll"
    /\ UNCHANGED <<con, flushed, ret, fifo, nIn, nOut, bus, hwFault, hwK>>
    /\ UNCHANGED harnessVars

\* A mutation of StatIsZero: the test looks at bit 1.
StatIsZero_bit1(v) == And32(ToU32(v), ToU32(2)) = Zero32

\* (BITREV_STAT & 1u) == 0
StatIsZero(v) == And32(ToU32(v), ToU32(1)) = Zero32

\* while ((BITREV_STAT & 1u) == 0) ;  -- one read of STAT, which returned v.
PollStat(v) ==
    /\ pc = "poll"
    /\ i < N
    /\ bus' = <<"STAT", v>>
    /\ pc' = IF StatIsZero(v) THEN "poll" ELSE "pop"
    /\ UNCHANGED <<i, errors, con, flushed, ret, fifo, nIn, nOut, hwFault, hwK>>
    /\ UNCHANGED harnessVars

\* A read of STAT, with whatever the accelerator answers.
Poll == \E v \in HwStat : PollStat(v)

\* A read of STAT that the accelerator answers with bit 0 set.
PollReady == \E v \in {w \in HwStat : w % 2 = 1} : PollStat(v)

\* A mutation of Compare: the first mismatch ends the loop.
Compare_abort(sample, expect) ==
    /\ IF sample # expect
       THEN /\ Printf(<<"mismatch", i, sample, expect>>)
            /\ errors' = errors + 1
            /\ i' = N
       ELSE /\ UNCHANGED <<con, errors>>
            /\ i' = i + 1
    /\ pc' = "poll"

\* A mutation of Compare: a mismatching index is tried again.
Compare_retry(sample, expect) ==
    /\ IF sample # expect
       THEN /\ Printf(<<"mismatch", i, sample, expect>>)
            /\ errors' = errors + 1
            /\ i' = i
       ELSE /\ UNCHANGED <<con, errors>>
            /\ i' = i + 1
    /\ pc' = "poll"

\* A mutation of Compare: a mismatch is printed but not counted.
Compare_nocount(sample, expect) ==
    /\ IF sample # expect
       THEN /\ Printf(<<"mismatch", i, sample, expect>>)
            /\ errors' = errors
       ELSE UNCHANGED <<con, errors>>
    /\ i' = i + 1
    /\ pc' = "poll"

\* if (sample != expect) { printf("Mismatch @%u: got %u, exp %u\n", ...);
\* ++errors; } and the loop's ++i.
Compare(sample, expect) ==
    /\ IF sample # expect
       THEN /\ Printf(<<"mismatch", i, sample, expect>>)
            /\ errors' = errors + 1
       ELSE UNCHANGED <<con, errors>>
    /\ i' = i + 1
    /\ pc' = "poll"

\* sample = BITREV_OUT; expect = reverse_bits_k(i); and the comparison.
PopAndCheck ==
    /\ pc = "pop"
    /\ fifo # <<>>
    /\ LET sample == HwWord(Head(fifo))
       IN  /\ fifo' = Tail(fifo)
           /\ nOut' = nOut + 1
           /\ bus' = <<"OUT", sample>>
           /\ \E e \in reverse_bits_k(ToU32(i), K) : Compare(sample, ToNat(e))
    /\ UNCHANGED <<flushed, ret, nIn, hwFault, hwK>>
    /\ UNCHANGED harnessVars

\* A mutation of Verdict: the two branches are swapped.
Verdict_swapped(e) ==
    IF e = 0 THEN <<"failed", e, 0, 0>> ELSE <<"passed", N, 0, 0>>

\* The message of the final if/else on errors.
Verdict(e) ==
    IF e = 0 THEN <<"passed", N, 0, 0>> ELSE <<"failed", e, 0, 0>>

\* A mutation of Report: the verdict is printed from half the frame on.
Report_early ==
    /\ pc = "poll"
    /\ i >= N \div 2
    /\ Printf(Verdict(errors))
    /\ pc' = "flush"
    /\ UNCHANGED <<i, errors, flushed, ret, fifo, nIn, nOut, bus, hwFault, hwK>>
    /\ UNCHANGED harnessVars

\* The pull loop ends; the PASSED or FAILED message is printed.
Report ==
    /\ pc = "poll"
    /\ i >= N
    /\ Printf(Verdict(errors))
    /\ pc' = "flush"
    /\ UNCHANGED <<i, errors, flushed, ret, fifo, nIn, nOut, bus, hwFault, hwK>>
    /\ UNCHANGED harnessVars

\* uart_write_flush(); and the return to main.
Flush ==
    /\ pc = "flush"
    /\ UartWriteFlush(con)
    /\ pc' = "ret"
    /\ UNCHANGED <<i, errors, con, ret, fifo, nIn, nOut, bus, hwFault, hwK>>
    /\ UNCHANGED harnessVars

\* return 0;
MainReturn ==
    /\ pc = "ret"
    /\ ret' = 0
    /\ pc' = "halt"
    /\ UNCHANGED <<i, errors, con, flushed, fifo, nIn, nOut, bus, hwFault, hwK>>
    /\ UNCHANGED harnessVars

Next ==
    \/ MainDemos
    \/ Banner
    \/ PushWord
    \/ PushDone
    \/ Poll
    \/ PopAndCheck
    \/ Report
    \/ Flush
    \/ MainReturn

Spec == Init /\ [][Next]_vars

\* The processor keeps executing, and the accelerator raises STAT bit 0 in
\* the end while a word is ready.
FairSpec == Spec /\ WF_vars(Next) /\ WF_vars(PollReady)

\* The accelerator returns the K-bit reversal of every index.
HwCorrect == \A s \in DOMAIN hwFault : HwWord(s) = BitReversal(s, K)

\* The runs against an accelerator that returns the right word at every pop
\* and raises STAT bit 0 in the end while a word is ready.
InitCorrect == Init /\ HwCorrect

PassSpec == InitCorrect /\ [][Next]_vars /\ WF_vars(Next) /\ WF_vars(PollReady)

\* ------------------------------------------------------------------------
\* isqrt harness: isqrt run step by step on bounded arguments
\* ------------------------------------------------------------------------
\* The isqrt state of the harness as one record.
IsqrtState == [n |-> srem, res |-> sres, bit |-> sbit, ovf |-> sovf]

\* The halves tried: the low ones, those around 2^14, that of 1234567890
\* (high 18838, low 722) and the top ones.
IsqrtHighs == (0 .. IsqrtSpan) \cup {16383, 16384, 18838, 32767, 32768, 65534, 65535}

IsqrtLows == (0 .. IsqrtSpan) \cup {722, 4761, 65534, 65535}

InitIsqrt ==
    /\ DriverIdle
    /\ RevIdle
    /\ spc = "entry"
    /\ sn \in IsqrtHighs \X IsqrtLows
    /\ srem = <<0, 0>>
    /\ sres = <<0, 0>>
    /\ sbit = <<0, 0>>
    /\ sovf = FALSE

\* The isqrt variables take the fields of the record st.
IsqrtStore(st) ==
    /\ srem' = st.n
    /\ sres' = st.res
    /\ sbit' = st.bit
    /\ sovf' = st.ovf

\* The call: n is the argument, res = 0, bit = 1u << 30.
IsqrtEntry ==
    /\ spc = "entry"
    /\ IsqrtStore(IsqrtEntryState(sn))
    /\ spc' = "shrink"
    /\ UNCHANGED <<sn, driverVars, revVars, first>>

\* while (bit > n) bit >>= 2;  -- one iteration.
IsqrtShrinkStep ==
    /\ spc = "shrink"
    /\ Lt32(srem, sbit)
    /\ sbit' = ShrHalves(sbit, 2)
    /\ UNCHANGED <<spc, sn, srem, sres, sovf, driverVars, revVars, first>>

\* The first loop ends.
IsqrtShrunk ==
    /\ spc = "shrink"
    /\ ~Lt32(srem, sbit)
    /\ spc' = "loop"
    /\ UNCHANGED <<sn, srem, sres, sbit, sovf, driverVars, revVars, first>>

\* while (bit) { ... }  -- one iteration.
IsqrtStep ==
    /\ spc = "loop"
    /\ sbit # <<0, 0>>
    /\ IsqrtStore(IsqrtBody(IsqrtState))
    /\ UNCHANGED <<spc, sn, driverVars, revVars, first>>

\* return res;
IsqrtReturn ==
    /\ spc = "loop"
    /\ sbit = <<0, 0>>
    /\ spc' = "done"
    /\ UNCHANGED <<sn, srem, sres, sbit, sovf, driverVars, revVars, first>>

NextIsqrt ==
    \/ IsqrtEntry
    \/ IsqrtShrinkStep
    \/ IsqrtShrunk
    \/ IsqrtStep
    \/ IsqrtReturn

\* isqrt runs on a processor that keeps executing.
SpecIsqrt == InitIsqrt /\ [][NextIsqrt]_vars /\ WF_vars(NextIsqrt)

\* ------------------------------------------------------------------------
\* An accelerator that never raises STAT bit 0 for some word
\* ------------------------------------------------------------------------
InitStuck ==
    /\ Boot
    /\ hwFault \in [FaultSites -> {"none", "stuck"}]
    /\ hwK = K

SpecStuck == InitStuck /\ [][Next]_vars /\ WF_vars(Next) /\ WF_vars(PollReady)

\* ------------------------------------------------------------------------
\* An accelerator built with another width than K
\* ------------------------------------------------------------------------
InitSkew ==
    /\ Boot
    /\ hwFault = [s \in FaultSites |-> "none"]
    /\ hwK \in (K - MaxSkew .. K + MaxSkew) \ {K}

SpecSkew == InitSkew /\ [][Next]_vars

\* ------------------------------------------------------------------------
\* Two runs of bitrev_selftest in sequence
\* ------------------------------------------------------------------------
\* The place on the console of the banner of the run in progress.
LastStart ==
    CHOOSE k \in 1 .. Len(con) :
        /\ con[k][1] = "start"
        /\ \A m \in k + 1 .. Len(con) : con[m][1] # "start"

\* What the run in progress has printed: banner, diagnostics, verdict.
RunOutput == SubSeq(con, LastStart, Len(con))

\* The accelerators that are wrong at one index at most.
InitFew == Init /\ Cardinality({s \in FaultSites : hwFault[s] # "none"}) <= 1

\* bitrev_selftest(); a second time, once the first call has returned.  The
\* accelerator has given back every word and answers as in the first run.
SecondCall ==
    /\ pc = "ret"
    /\ first = <<>>
    /\ first' = <<errors, RunOutput>>
    /\ pc' = "banner"
    /\ UNCHANGED <<i, errors, con, flushed, ret, fifo, nIn, nOut, bus, hwFault, hwK>>
    /\ UNCHANGED <<revVars, isqrtVars>>

\* return 0; after the second call.
ReturnAfterSecond == first # <<>> /\ MainReturn

NextTwice ==
    \/ MainDemos
    \/ Banner
    \/ PushWord
    \/ PushDone
    \/ Poll
    \/ PopAndCheck
    \/ Report
    \/ Flush
    \/ SecondCall
    \/ ReturnAfterSecond

SpecTwice == InitFew /\ [][NextTwice]_vars

\* One run against those accelerators, which raise STAT bit 0 in the end for
\* every word they hold, on a processor that keeps executing.
SpecFairFew == InitFew /\ [][Next]_vars /\ WF_vars(Next) /\ WF_vars(PollReady)

\* ------------------------------------------------------------------------
\* What the properties speak of
\* ------------------------------------------------------------------------
\* The mismatch diagnostics printed so far, oldest first.
Diags == SelectSeq(con, LAMBDA m : m[1] = "mismatch")

\* The latest message on the console.
LastMsg == con[Len(con)]

\* reverse_bits_k(j) of the build under test (K = 10), for every index.
ExpectTable ==
    [j \in 0 .. N - 1 |-> ToNat(CHOOSE e \in reverse_bits_k(ToU32(j), K) : TRUE)]

\* The indices whose popped word differs from reverse_bits_k of the index.
MismatchIdx == {j \in 0 .. N - 1 : HwWord(j) # ExpectTable[j]}

\* The accelerator is wrong at index 5 only, where it returns 0.
HwWrongAt5 ==
    /\ hwFault[5] = "zero"
    /\ \A s \in DOMAIN hwFault : s # 5 => hwFault[s] = "none"

\* bitrev_selftest has printed its verdict.
Reported == pc \in {"flush", "ret", "halt"}

\* The driver waits for a word the accelerator never signals.
Spinning == pc = "poll" /\ i < N /\ HwHolds

\* The number of verdicts on the console.
VerdictCount ==
    Len(SelectSeq(con, LAMBDA m : m[1] \in {"passed", "failed"}))

\* No verdict is on the console.
NoVerdict == \A m \in 1 .. Len(con) : con[m][1] \notin {"passed", "failed"}

\* The latest register access was a read of STAT with bit 0 set.
SawReady == bus[1] = "STAT" /\ bus[2] % 2 = 1

\* ------------------------------------------------------------------------
\* Properties of the self-test
\* ------------------------------------------------------------------------
\* C1: against an accelerator that takes all N pushes, raises STAT bit 0 in
\* the end while a word is ready and returns the bit reversal of the i-th
\* pushed index at the i-th pop, the run ends with no mismatch diagnostic,
\* errors = 0 and the PASSED verdict naming N = 1024.
PassRun ==
    (pc = "main" /\ HwCorrect)
        ~> (/\ pc = "halt"
            /\ nIn = N
            /\ nOut = N
            /\ errors = 0
            /\ Diags = <<>>
            /\ LastMsg = <<"passed", 1024, 0, 0>>)

PassRunWitness ==
    /\ pc = "halt"
    /\ HwCorrect
    /\ nOut = N
    /\ LastMsg = <<"passed", 1024, 0, 0>>

\* C2: whatever words are popped, the run makes all N comparisons and
\* prints one diagnostic (index, got, expected) for exactly the indices
\* whose word differs from reverse_bits_k(index), in ascending order; the
\* error count is their number; an accelerator wrong only at index 5
\* (returning 0) gives one diagnostic naming index 5 and FAILED (1 errors).
MismatchesCounted ==
    Reported =>
        /\ nOut = N
        /\ i = N
        /\ Len(Diags) = Cardinality(MismatchIdx)
        /\ \A d \in 1 .. Len(Diags) :
              /\ Diags[d][2] \in MismatchIdx
              /\ Diags[d] = <<"mismatch", Diags[d][2], HwWord(Diags[d][2]),
                              ExpectTable[Diags[d][2]]>>
              /\ d > 1 => Diags[d - 1][2] < Diags[d][2]
        /\ errors = Cardinality(MismatchIdx)
        /\ HwWrongAt5 =>
              /\ Diags = << <<"mismatch", 5, 0, 640>> >>
              /\ LastMsg = <<"failed", 1, 0, 0>>

MismatchesCountedWitness ==
    /\ pc = "halt"
    /\ HwWrongAt5
    /\ Diags = << <<"mismatch", 5, 0, 640>> >>
    /\ LastMsg = <<"failed", 1, 0, 0>>

\* C3 as claimed: main returns the success indicator 0 if and only if no
\* mismatch was recorded over the run.
ExitTellsResult == pc = "halt" => (ret = 0 <=> errors = 0)

\* C3 as amended: main returns 0 after every completed run, whatever the
\* error count; the verdict alone tells the result, PASSED if and only if no
\* mismatch was recorded over the N comparisons.
ExitAlwaysZero ==
    pc = "halt" =>
        /\ ret = 0
        /\ nOut = N
        /\ errors = Cardinality(MismatchIdx)
        /\ LastMsg[1] = "passed" <=> errors = 0
        /\ LastMsg[1] = "failed" <=> errors > 0

ExitAlwaysZeroWitness ==
    /\ pc = "halt"
    /\ ret = 0
    /\ errors = 2
    /\ LastMsg = <<"failed", 2, 0, 0>>

\* C4: every read of OUT directly follows a read of STAT that returned bit 0
\* set, and the access that follows such a read of STAT is one read of OUT:
\* OUT is never read after STAT returned bit 0 clear, and never twice on one
\* ready observation.
Handshake ==
    [][/\ nOut' # nOut => SawReady /\ nOut' = nOut + 1 /\ bus'[1] = "OUT"
       /\ SawReady => nOut' = nOut + 1 /\ bus'[1] = "OUT"]_vars

HandshakeWitness ==
    /\ bus[1] = "OUT"
    /\ nOut = 6
    /\ pc = "poll"

\* C5: the values written to IN are 0, 1, ..., N-1 in this order, each once:
\* while nothing is popped the accelerator holds exactly 0 .. nIn-1, at most
\* N words are written, and all N are written once the push loop is left.
PushOrder ==
    /\ nIn <= N
    /\ Len(fifo) + nOut = nIn
    /\ nOut = 0 => fifo = [j \in 1 .. nIn |-> j - 1]
    /\ pc = "push" => nIn = i
    /\ pc \in {"poll", "pop", "flush", "ret", "halt"} => nIn = N
    /\ bus[1] = "IN" => bus[2] = nIn - 1

PushOrderWitness ==
    /\ pc = "poll"
    /\ nOut = 0
    /\ Len(fifo) = 1024
    /\ fifo[1] = 0
    /\ fifo[1024] = 1023

\* C6: the two phases do not interleave: STAT and OUT are read only after
\* the N-th write to IN, and IN is written only while neither has been read.
PhaseSeparation ==
    [][/\ bus'[1] \in {"STAT", "OUT"} => nIn = N /\ nIn' = N
       /\ nIn' # nIn => bus[1] \in {"none", "IN"} /\ nOut = 0]_vars

PhaseSeparationWitness ==
    /\ bus = <<"STAT", 0>>
    /\ nIn = N
    /\ nOut = 0

\* ------------------------------------------------------------------------
\* Properties of the reference model
\* ------------------------------------------------------------------------
\* C7: for K = 10 and for every K = k with 1 <= k <= 32, reverse_bits_k(x)
\* for x below 2^k is the k-bit word whose bit j is bit k-1-j of x, the bits
\* from k up being 0.
ReferenceModelCorrect ==
    /\ (rpc \in {"once", "twice"} /\ rk >= 1) =>
          \A j \in BitPos : ry[j] = IF j < rk THEN rx[rk - 1 - j] ELSE 0
    /\ (rpc = "swept" /\ rk >= 1) =>
          \A v \in 1 .. Len(img) : img[v] = ToU32(BitReversal(v - 1, rk))

ReferenceModelCorrectWitness ==
    /\ rpc = "once"
    /\ rk = 32
    /\ rx[0] = 1
    /\ rx[1] = 0
    /\ ry[31] = 1
    /\ ry[30] = 0

\* C8: for every k in 1 .. 32 and every x below 2^k,
\* reverse_bits_k(reverse_bits_k(x)) = x.
Involution == (rpc = "twice" /\ rk >= 1) => rz = rx

InvolutionWitness ==
    /\ rpc = "twice"
    /\ rk = 10
    /\ rx = ToU32(3)
    /\ ry = ToU32(768)
    /\ rz = ToU32(3)

\* C9: for every k, reverse_bits_k applied to every index of [0, 2^k) gives
\* every value of [0, 2^k) exactly once.
Bijection ==
    rpc = "swept" =>
        /\ Len(img) = 2 ^ rk
        /\ \A v \in 1 .. Len(img) : img[v][31] = 0 /\ ToNat(img[v]) < 2 ^ rk
        /\ Cardinality({img[v] : v \in 1 .. Len(img)}) = Len(img)

\* C10: with K = 0, reverse_bits_k(0) is 0.
ZeroWidthIdentity == (rpc \in {"once", "twice"} /\ rk = 0) => ry = rx

\* C11: for every 32-bit x, also with bits set above the K low ones,
\* reverse_bits_k(x) is below 2^K (its bits from K up are 0) and equals
\* reverse_bits_k(x mod 2^K).
InputMasked ==
    (rpc = "masked" /\ rk >= 1) =>
        /\ ry = rz
        /\ \A j \in BitPos : j >= rk => ry[j] = 0

InputMaskedWitness ==
    /\ rpc = "masked"
    /\ rk = 10
    /\ rx[31] = 1
    /\ rx[10] = 1
    /\ LowBits(rx, 10) = ToU32(1)
    /\ ry = ToU32(512)

\* C12: with K = 10, reverse_bits_k(1) = 512 and reverse_bits_k(3) = 768.
KnownVectors ==
    (rpc = "once" /\ rk = 10) =>
        /\ rx = ToU32(1) => ToNat(ry) = 512 /\ ry[31] = 0
        /\ rx = ToU32(3) => ToNat(ry) = 768 /\ ry[31] = 0

KnownVectorsWitness ==
    /\ rpc = "once"
    /\ rk = K
    /\ ToNat(rx) = 1
    /\ ToNat(ry) = 512

\* C13: a second run of bitrev_selftest against an accelerator that answers
\* as in the first run ends with the same error count and prints the same
\* diagnostics and the same verdict as the first.
Repeatable ==
    (first # <<>> /\ Reported) =>
        /\ errors = first[1]
        /\ RunOutput = first[2]
        /\ nIn = 2 * N
        /\ nOut = 2 * N

RepeatableWitness ==
    /\ pc = "halt"
    /\ first # <<>>
    /\ first[1] = 1
    /\ errors = 1
    /\ RunOutput = << <<"start", 0, 0, 0>>, <<"mismatch", 5, 0, 640>>,
                      <<"failed", 1, 0, 0>> >>

\* C14: once the driver waits for a word for which the accelerator never
\* sets STAT bit 0, it stays in the STAT loop for ever: every further step
\* is a read of STAT, OUT is not read again, errors and the console do not
\* change, no verdict is printed and main does not return.
Hang ==
    /\ [][Spinning =>
            /\ Spinning'
            /\ bus'[1] = "STAT"
            /\ UNCHANGED <<i, nOut, errors, con, flushed, ret>>]_vars
    /\ [](Spinning => NoVerdict /\ ret = -1 /\ nOut = i)

HangWitness ==
    /\ Spinning
    /\ i = 5
    /\ nOut = 5
    /\ bus = <<"STAT", 2>>

\* C15: if the accelerator sets STAT bit 0 in the end for each awaited
\* word, bitrev_selftest terminates; it prints one verdict, after all N
\* comparisons and not before: PASSED naming N when errors = 0, FAILED
\* naming the error count otherwise.
SingleVerdict ==
    /\ <>(pc = "halt")
    /\ [](VerdictCount <= 1)
    /\ [](VerdictCount = 1 =>
            /\ nOut = N
            /\ i = N
            /\ LastMsg = IF errors = 0 THEN <<"passed", 1024, 0, 0>>
                                       ELSE <<"failed", errors, 0, 0>>)
    /\ [](pc \in {"flush", "ret", "halt"} => VerdictCount = 1)

SingleVerdictWitness ==
    /\ pc = "halt"
    /\ VerdictCount = 1
    /\ errors = 1
    /\ nOut = N
    /\ LastMsg = <<"failed", 1, 0, 0>>

\* C16: a completed run has written IN N times and read OUT N times, one
\* read of OUT and one comparison per index (the number of reads is the
\* loop index, mismatch or not), and OUT is never read more often than IN
\* was written.
AccessCounts ==
    /\ nOut <= nIn
    /\ nIn <= N
    /\ pc \in {"poll", "pop"} => nOut = i
    /\ Len(Diags) <= nOut
    /\ Reported => nIn = N /\ nOut = N /\ i = N

AccessCountsWitness ==
    /\ pc = "halt"
    /\ nIn = 1024
    /\ nOut = 1024
    /\ Len(Diags) = 3

\* C17: every message group of the self-test is flushed once printed: no
\* message is unflushed while the driver waits on STAT, and the verdict is
\* flushed on the PASSED and on the FAILED path.
FlushedAfterEachGroup ==
    /\ pc \in {"poll", "pop"} => flushed = Len(con)
    /\ pc \in {"ret", "halt"} => flushed = Len(con)

\* C19: errors is 0 when the pull phase begins, never decreases, grows by
\* exactly 1 in a comparison that mismatches and only there, is at most the
\* number of comparisons done and so at most N, and the verdict that reads
\* it is printed only after the last comparison.
ErrorTally ==
    /\ [](pc \in {"poll", "pop"} => errors <= nOut /\ errors = Len(Diags))
    /\ []((pc = "poll" /\ nOut = 0) => errors = 0)
    /\ [](errors <= N)
    /\ [](VerdictCount > 0 => nOut = N)
    /\ [][/\ errors' >= errors
          /\ errors' # errors => errors' = errors + 1 /\ nOut' = nOut + 1
          /\ nOut' # nOut =>
                errors' = errors + (IF bus'[2] # ExpectTable[i] THEN 1 ELSE 0)]_vars

ErrorTallyWitness ==
    /\ pc = "poll"
    /\ i = N
    /\ errors = 3
    /\ nOut = N

\* C18: when the accelerator reverses K' # K bits and otherwise follows the
\* protocol, the run still completes; the fault shows as mismatch
\* diagnostics and FAILED (n errors), n being the number of indices whose
\* word differs from reverse_bits_k(index), and the self-test prints nothing
\* but its banner, such diagnostics and that verdict.
SkewShowsAsMismatches ==
    (Reported /\ hwK # K) =>
        LET wrong == MismatchIdx
            out == RunOutput
        IN  /\ nOut = N
            /\ errors = Cardinality(wrong)
            /\ errors > 0
            /\ LastMsg = <<"failed", errors, 0, 0>>
            /\ Len(out) = errors + 2
            /\ \A m \in 2 .. Len(out) - 1 :
                  /\ out[m][1] = "mismatch"
                  /\ out[m][2] \in wrong
                  /\ out[m][3] = HwWord(out[m][2])
                  /\ out[m][4] = ExpectTable[out[m][2]]

SkewShowsAsMismatchesWitness ==
    /\ pc = "halt"
    /\ hwK = 9
    /\ errors = 1023
    /\ LastMsg = <<"failed", 1023, 0, 0>>

\* ------------------------------------------------------------------------
\* Properties of isqrt
\* ------------------------------------------------------------------------
\* a * b as a number in halves, for a and b up to 2^16.
Product(a, b) ==
    LET p == (a \div 256) * b
        q == (a % 256) * b
    IN  SumWide(<<p \div 256, (p % 256) * 256>>, <<q \div Half, q % Half>>)

\* r is the integer square root of n: r * r <= n < (r + 1) * (r + 1).
IsRootOf(r, n) ==
    /\ r[1] = 0
    /\ ~Lt32(n, Product(r[2], r[2]))
    /\ Lt32(n, Product(r[2] + 1, r[2] + 1))

\* C20: for every 32-bit n, 0 and 2^32 - 1 among them, isqrt(n) terminates
\* and returns r with r * r <= n < (r + 1) * (r + 1), and no res + bit
\* exceeds 32 bits on the way; main's isqrt(1234567890) is 35136.
IsqrtCorrect ==
    /\ <>(spc = "done")
    /\ [](spc = "done" => IsRootOf(sres, sn) /\ sres = isqrt(sn))
    /\ [](~sovf)
    /\ [](sn = <<18838, 722>> /\ spc = "done" => sres = <<0, 35136>>)

IsqrtCorrectWitness ==
    /\ spc = "done"
    /\ sn = <<65535, 65535>>
    /\ sres = <<0, 65535>>
    /\ ~sovf

====
